---------------------------- MODULE Spec2Model ----------------------------
(***************************************************************************)
(* Lineage graph of collectra_gui: the CollectraGraph store built on a     *)
(* networkx DiGraph, its node factory, the type-filtered traversal and the *)
(* display-value resolver (src/collectra_gui/lineage_display.py).          *)
(***************************************************************************)
EXTENDS Integers, Sequences, FiniteSets, TLC

(***************************************************************************)
(* Bounds of the model.                                                    *)
(***************************************************************************)
\* longest parents list a field bag carries
MaxParents == 2
\* number of mutating calls (add_node, remove_node) in one run
MaxOps == 1

(***************************************************************************)
(* Input domains.                                                          *)
(***************************************************************************)
IdOrder == <<"a", "b", "c">>
Ids == {IdOrder[i] : i \in 1..Len(IdOrder)}

Absent == "<absent>"

ImageType == "collectra.Image"
ImageCropType == "collectra.ImageCrop"
TextType == "collectra.Text"
OtherType == "collectra.Unknown"
Types == {ImageType, ImageCropType, TextType, OtherType}

CropFields == {"x_center", "y_center", "width_relative", "height_relative"}

\* python's `tag in node_type` on the type strings of the model
Contains(type, tag) ==
    CASE tag = "Image" -> type \in {ImageType, ImageCropType}
      [] tag = "ImageCrop" -> type = ImageCropType
      [] tag = "Text" -> type = TextType
      [] OTHER -> FALSE

(***************************************************************************)
(* Sequence helpers (python list / dict-order operations).                 *)
(***************************************************************************)
Range(s) == {s[i] : i \in 1..Len(s)}

\* dict[k] = v on an insertion-ordered dict: a new key goes last
InsertKey(s, k) == IF k \in Range(s) THEN s ELSE Append(s, k)

\* del dict[k]: the other keys keep their order
DeleteKey(s, k) == SelectSeq(s, LAMBDA x : x # k)

\* the subsequences of s of length at most n
RECURSIVE SubSeqsUpTo(_, _)
SubSeqsUpTo(s, n) ==
    IF s = <<>> \/ n = 0 THEN {<<>>}
    ELSE SubSeqsUpTo(Tail(s), n)
            \cup {<<Head(s)>> \o t : t \in SubSeqsUpTo(Tail(s), n - 1)}

(***************************************************************************)
(* utils.normalise_items on the three shapes of a YAML value.              *)
(***************************************************************************)
\* a YAML value that may be missing, one thing, or a list of things
NoItems == [form |-> "none", items |-> <<>>]
OneItem(x) == [form |-> "single", items |-> <<x>>]
ItemList(xs) == [form |-> "list", items |-> xs]

normalise_items(v) ==
    CASE v.form = "none" -> <<>>
      [] v.form = "list" -> v.items
      [] OTHER -> <<v.items[1]>>

\* the `parents` field of a bag: missing, one id, or a list of at most
\* MaxParents ids (listed in id order)
ParentInputs ==
    {NoItems}
        \cup {OneItem(p) : p \in Ids}
        \cup {ItemList(ps) : ps \in SubSeqsUpTo(IdOrder, MaxParents)}

(***************************************************************************)
(* Field bags handed to add_node.                                          *)
(***************************************************************************)
\* each candidate id comes with its own payload and its own crop rectangle
DataFor(id) == "data of " \o id

RegionFor(id) ==
    LET k == CASE id = "a" -> 10 [] id = "b" -> 20 [] OTHER -> 30
    IN [x_center |-> k + 1, y_center |-> k + 2,
        width_relative |-> k + 3, height_relative |-> k + 4]

Restrict(f, S) == [x \in S |-> f[x]]

\* the crop fields present in a bag: all four, or all but one, or none
CropInputs(id) ==
    {Restrict(RegionFor(id), S) :
        S \in {CropFields, {}} \cup {CropFields \ {f} : f \in CropFields}}

NoCrop == [f \in {} |-> 0]

\* a bag of a type without the ImageCrop tag: its crop keys are never read, so
\* it carries all of them or none
BagCropInputs(id, type) ==
    IF type = ImageCropType THEN CropInputs(id) ELSE {NoCrop, RegionFor(id)}

\* values a field bag may carry for `data` and `label`
DataInputs(id) == {DataFor(id)}
LabelInputs == {"label", Absent}

\* the text and the rectangle an edit passes
EditedData == "edited text"

EditedRegion ==
    [x_center |-> 91, y_center |-> 92, width_relative |-> 93, height_relative |-> 94]

\* the region argument of an edit: all four fields, all but one, or none
RegionInputs ==
    {Restrict(EditedRegion, S) :
        S \in {CropFields, {}} \cup {CropFields \ {f} : f \in CropFields}}

\* ids uuid4 hands out, in the order they are drawn; an id is drawn once
UuidOrder == <<"u1", "u2", "u3">>

(***************************************************************************)
(* CollectraNodeFactory.create_node: the pydantic models built from a bag. *)
(* A bag is [id, type, data, label, parents, crop]; Absent marks a key the *)
(* bag does not have, crop holds the crop keys the bag has.                *)
(***************************************************************************)
Raised(kind) == [err |-> kind]

OrDefault(v, d) == IF v = Absent THEN d ELSE v

\* CollectraNode(**data): id and type are required, data and label default to ""
CollectraNode(bag, crop_region) ==
    [id |-> bag.id,
     type |-> bag.type,
     data |-> OrDefault(bag.data, ""),
     label |-> OrDefault(bag.label, ""),
     parents |-> bag.parents,
     crop_region |-> crop_region]

create_node(bag) ==
    LET node_type == OrDefault(bag.type, "")
    IN IF Contains(node_type, "ImageCrop")
       THEN IF ~(CropFields \subseteq DOMAIN bag.crop)
            THEN Raised("KeyError")
            ELSE IF bag.id = Absent
                 THEN Raised("ValidationError")
                 ELSE [err |-> "", node |-> CollectraNode(bag, Restrict(bag.crop, CropFields))]
       ELSE IF bag.id = Absent \/ bag.type = Absent
            THEN Raised("ValidationError")
            ELSE [err |-> "", node |-> CollectraNode(bag, NoCrop)]

(***************************************************************************)
(* networkx.DiGraph as CollectraGraph uses it.  A graph value is           *)
(*   nodes : ids in insertion order (nx _node)                             *)
(*   attr  : id -> CollectraNode for the ids whose "node" attribute is set *)
(*   succ  : id -> children in insertion order (nx _succ)                  *)
(*   pred  : id -> parents in insertion order (nx _pred)                   *)
(***************************************************************************)
EmptyGraph == [nodes |-> <<>>, attr |-> <<>>, succ |-> <<>>, pred |-> <<>>]

Put(f, k, v) == [x \in (DOMAIN f) \cup {k} |-> IF x = k THEN v ELSE f[x]]

Drop(f, k) == [x \in (DOMAIN f) \ {k} |-> f[x]]

InGraph(g, id) == id \in DOMAIN g.succ

\* a node of the DiGraph created by add_edge alone has no attributes
nx_touch(g, id) ==
    IF InGraph(g, id) THEN g
    ELSE [g EXCEPT !.nodes = Append(@, id),
                   !.succ = Put(@, id, <<>>),
                   !.pred = Put(@, id, <<>>)]

nx_add_node(g, id, node) == [nx_touch(g, id) EXCEPT !.attr = Put(@, id, node)]

nx_add_edge(g, u, v) ==
    LET h == nx_touch(nx_touch(g, u), v)
    IN [h EXCEPT !.succ = [@ EXCEPT ![u] = InsertKey(@, v)],
                 !.pred = [@ EXCEPT ![v] = InsertKey(@, u)]]

nx_remove_node(g, n) ==
    [nodes |-> DeleteKey(g.nodes, n),
     attr |-> Drop(g.attr, n),
     succ |-> [x \in (DOMAIN g.succ) \ {n} |-> DeleteKey(g.succ[x], n)],
     pred |-> [x \in (DOMAIN g.pred) \ {n} |-> DeleteKey(g.pred[x], n)]]

RECURSIVE add_edges(_, _, _)
add_edges(g, parents, id) ==
    IF parents = <<>> THEN g
    ELSE add_edges(nx_add_edge(g, Head(parents), id), Tail(parents), id)

(***************************************************************************)
(* CollectraGraph: mutations.  Each returns [err, graph]; err = "" when    *)
(* the call returns normally, else the exception it raises.                *)
(***************************************************************************)
\* a store that links the parents before the node is constructed
add_node_links_first(g, bag) ==
    LET data == [bag EXCEPT !.parents = normalise_items(bag.parents)]
        made == create_node(data)
        linked == IF bag.id = Absent THEN g ELSE add_edges(g, data.parents, bag.id)
    IN IF made.err # ""
       THEN [err |-> made.err, graph |-> linked]
       ELSE [err |-> "", graph |-> nx_add_node(linked, made.node.id, made.node)]

\* a store that links a node only to the parents the graph already holds
add_node_known_parents_only(g, bag) ==
    LET data == [bag EXCEPT !.parents = normalise_items(bag.parents)]
        made == create_node(data)
    IN IF made.err # ""
       THEN [err |-> made.err, graph |-> g]
       ELSE [err |-> "",
             graph |-> add_edges(nx_add_node(g, made.node.id, made.node),
                                 SelectSeq(data.parents, LAMBDA q : InGraph(g, q)),
                                 made.node.id)]

add_node(g, bag) ==
    LET data == [bag EXCEPT !.parents = normalise_items(bag.parents)]
        made == create_node(data)
    IN IF made.err # ""
       THEN [err |-> made.err, graph |-> g]
       ELSE [err |-> "",
             graph |-> add_edges(nx_add_node(g, made.node.id, made.node),
                                 data.parents, made.node.id)]

\* a store that forgets the node but keeps the edges into and out of it
remove_node_keeps_edges(g, node_id) ==
    IF ~InGraph(g, node_id)
    THEN [err |-> "NetworkXError", graph |-> g]
    ELSE [err |-> "",
          graph |-> [g EXCEPT !.nodes = DeleteKey(@, node_id),
                              !.attr = Drop(@, node_id),
                              !.succ = Drop(@, node_id),
                              !.pred = Drop(@, node_id)]]

remove_node(g, node_id) ==
    IF ~InGraph(g, node_id)
    THEN [err |-> "NetworkXError", graph |-> g]
    ELSE [err |-> "", graph |-> nx_remove_node(g, node_id)]

\* f"user_text_{uuid.uuid4().hex[:8]}": an id no node of the graph has
FreshId(g) ==
    UuidOrder[CHOOSE i \in 1..Len(UuidOrder) :
                /\ ~(UuidOrder[i] \in DOMAIN g.succ)
                /\ \A j \in 1..(i - 1) : UuidOrder[j] \in DOMAIN g.succ]

\* a set_data that only edits: without node_id it fails, whatever crop_id is
set_data_edit_only(g, node_id, data, crop_id) ==
    IF node_id # ""
    THEN IF ~(node_id \in DOMAIN g.attr)
         THEN [err |-> "ValueError: not found in graph", graph |-> g]
         ELSE [err |-> "", graph |-> [g EXCEPT !.attr[node_id].data = data]]
    ELSE [err |-> "ValueError: not found and crop_id not provided", graph |-> g]

\* a set_data whose new Text node does not carry the text
set_data_drops_text(g, node_id, data, crop_id) ==
    IF node_id # ""
    THEN IF ~(node_id \in DOMAIN g.attr)
         THEN [err |-> "ValueError: not found in graph", graph |-> g]
         ELSE [err |-> "", graph |-> [g EXCEPT !.attr[node_id].data = data]]
    ELSE IF crop_id = ""
    THEN [err |-> "ValueError: not found and crop_id not provided", graph |-> g]
    ELSE add_node(g, [id |-> FreshId(g), type |-> TextType, data |-> Absent,
                      label |-> "user_annotation_text", parents |-> OneItem(crop_id),
                      crop |-> NoCrop])

\* a set_data that writes the text into the label of the node
set_data_writes_label(g, node_id, data, crop_id) ==
    IF node_id # ""
    THEN IF ~(node_id \in DOMAIN g.attr)
         THEN [err |-> "ValueError: not found in graph", graph |-> g]
         ELSE [err |-> "", graph |-> [g EXCEPT !.attr[node_id].label = data]]
    ELSE IF crop_id = ""
    THEN [err |-> "ValueError: not found and crop_id not provided", graph |-> g]
    ELSE add_node(g, [id |-> FreshId(g), type |-> TextType, data |-> data,
                      label |-> "user_annotation_text", parents |-> OneItem(crop_id),
                      crop |-> NoCrop])

\* crop_id is "" when the caller passes None or the empty string
set_data(g, node_id, data, crop_id) ==
    IF node_id # ""
    THEN IF ~(node_id \in DOMAIN g.attr)
         THEN [err |-> "ValueError: not found in graph", graph |-> g]
         ELSE [err |-> "", graph |-> [g EXCEPT !.attr[node_id].data = data]]
    ELSE IF crop_id = ""
    THEN [err |-> "ValueError: not found and crop_id not provided", graph |-> g]
    ELSE add_node(g, [id |-> FreshId(g), type |-> TextType, data |-> data,
                      label |-> "user_annotation_text", parents |-> OneItem(crop_id),
                      crop |-> NoCrop])

\* CollectraCropRegion(**crop_region) is built before the node is looked at
set_crop_region(g, node_id, crop_region) ==
    IF ~(CropFields \subseteq DOMAIN crop_region)
    THEN [err |-> "ValidationError", graph |-> g]
    ELSE IF ~(node_id \in DOMAIN g.attr) \/ g.attr[node_id].crop_region = NoCrop
    THEN [err |-> "ValueError: not an annotation node", graph |-> g]
    ELSE [err |-> "",
          graph |-> [g EXCEPT !.attr[node_id].crop_region = Restrict(crop_region, CropFields)]]

(***************************************************************************)
(* CollectraGraph: queries.                                                *)
(***************************************************************************)
graph_nodes(g) == g.nodes

\* list(self._graph.successors(node_id)); raises for an id not in the DiGraph
children(g, node_id) ==
    IF InGraph(g, node_id) THEN [err |-> "", val |-> g.succ[node_id]]
    ELSE [err |-> "NetworkXError", val |-> <<>>]

parents(g, node_id) ==
    IF InGraph(g, node_id) THEN [err |-> "", val |-> g.pred[node_id]]
    ELSE [err |-> "NetworkXError", val |-> <<>>]

HasNode(g, node_id) == node_id \in DOMAIN g.attr

get_type(g, node_id) == IF HasNode(g, node_id) THEN g.attr[node_id].type ELSE ""

get_data(g, node_id) == IF HasNode(g, node_id) THEN g.attr[node_id].data ELSE ""

IsAnnotationNode(g, node_id) ==
    HasNode(g, node_id) /\ g.attr[node_id].crop_region # NoCrop

(***************************************************************************)
(* Type-filtered traversal.                                                *)
(***************************************************************************)
\* a filter that lets every child through
children_of_type_unfiltered(g, node_id, type_substr) == children(g, node_id)

children_of_type(g, node_id, type_substr) ==
    LET kids == children(g, node_id)
    IN IF kids.err # "" THEN kids
       ELSE [err |-> "",
             val |-> SelectSeq(kids.val,
                               LAMBDA c : Contains(get_type(g, c), type_substr))]

\* a loop that takes a node for a leaf only when it has no children at all
RECURSIVE dfs_loop_childless_leaves(_, _, _, _, _)
dfs_loop_childless_leaves(g, type_filter, stack, visited, leaves) ==
    IF stack = <<>> THEN [err |-> "", val |-> leaves]
    ELSE LET node_id == stack[Len(stack)]
             rest == SubSeq(stack, 1, Len(stack) - 1)
         IN IF node_id \in visited
            THEN dfs_loop_childless_leaves(g, type_filter, rest, visited, leaves)
            ELSE LET typed_children == children_of_type(g, node_id, type_filter)
                 IN IF typed_children.err # "" THEN typed_children
                    ELSE IF typed_children.val = <<>>
                         THEN dfs_loop_childless_leaves(
                                g, type_filter, rest, visited \cup {node_id},
                                IF children(g, node_id).val = <<>>
                                THEN Append(leaves, node_id) ELSE leaves)
                         ELSE dfs_loop_childless_leaves(
                                g, type_filter, rest \o typed_children.val,
                                visited \cup {node_id}, leaves)

\* the while loop of dfs_leaves: stack.pop() takes the last element
RECURSIVE dfs_loop(_, _, _, _, _)
dfs_loop(g, type_filter, stack, visited, leaves) ==
    IF stack = <<>> THEN [err |-> "", val |-> leaves]
    ELSE LET node_id == stack[Len(stack)]
             rest == SubSeq(stack, 1, Len(stack) - 1)
         IN IF node_id \in visited
            THEN dfs_loop(g, type_filter, rest, visited, leaves)
            ELSE LET typed_children == children_of_type(g, node_id, type_filter)
                 IN IF typed_children.err # "" THEN typed_children
                    ELSE IF typed_children.val = <<>>
                         THEN dfs_loop(g, type_filter, rest,
                                       visited \cup {node_id}, Append(leaves, node_id))
                         ELSE dfs_loop(g, type_filter, rest \o typed_children.val,
                                       visited \cup {node_id}, leaves)

\* the locals of dfs_leaves before the call: expanded holds the nodes whose
\* children were asked for, repeated says that one of them was asked twice
NoDfs ==
    [running |-> FALSE, start |-> Absent, type_filter |-> Absent, stack |-> <<>>,
     visited |-> {}, leaves |-> <<>>, err |-> "", expanded |-> {},
     repeated |-> FALSE]

\* leaves = []; visited = set(); stack = [start]
dfs_enter(start, type_filter) ==
    [NoDfs EXCEPT !.running = TRUE, !.start = start, !.type_filter = type_filter,
                  !.stack = <<start>>]

\* an iteration that does not record the node as visited
dfs_step_unmarked(g, d, typed_children) ==
    LET node_id == d.stack[Len(d.stack)]
        rest == SubSeq(d.stack, 1, Len(d.stack) - 1)
        asked == [d EXCEPT !.expanded = @ \cup {node_id},
                           !.repeated = @ \/ node_id \in d.expanded]
    IN IF node_id \in d.visited THEN [d EXCEPT !.stack = rest]
       ELSE IF typed_children.err # ""
       THEN [asked EXCEPT !.running = FALSE, !.err = typed_children.err]
       ELSE IF typed_children.val = <<>>
       THEN [asked EXCEPT !.stack = rest, !.leaves = Append(@, node_id)]
       ELSE [asked EXCEPT !.stack = rest \o typed_children.val]

\* one iteration of the while loop of dfs_leaves, typed_children being what
\* children_of_type returns for the node on top of the stack
dfs_step(g, d, typed_children) ==
    LET node_id == d.stack[Len(d.stack)]
        rest == SubSeq(d.stack, 1, Len(d.stack) - 1)
        asked == [d EXCEPT !.visited = @ \cup {node_id},
                           !.expanded = @ \cup {node_id},
                           !.repeated = @ \/ node_id \in d.expanded]
    IN IF node_id \in d.visited THEN [d EXCEPT !.stack = rest]
       ELSE IF typed_children.err # ""
       THEN [asked EXCEPT !.running = FALSE, !.err = typed_children.err]
       ELSE IF typed_children.val = <<>>
       THEN [asked EXCEPT !.stack = rest, !.leaves = Append(@, node_id)]
       ELSE [asked EXCEPT !.stack = rest \o typed_children.val]

\* a traversal that reports the start node whatever lies below it
dfs_leaves_start_only(g, start, type_filter) ==
    IF start \in DOMAIN g.succ THEN [err |-> "", val |-> <<start>>]
    ELSE [err |-> "NetworkXError", val |-> <<>>]

dfs_leaves(g, start, type_filter) == dfs_loop(g, type_filter, <<start>>, {}, <<>>)

\* a traversal that stops at the node it starts from
find_deepest_no_descent(g, start, type_filter) == [err |-> "", val |-> start]

find_deepest(g, start, type_filter) ==
    LET leaves == dfs_leaves(g, start, type_filter)
    IN IF leaves.err # "" THEN leaves
       ELSE [err |-> "", val |-> IF leaves.val # <<>> THEN leaves.val[1] ELSE ""]

(***************************************************************************)
(* Display resolver.  A NodeDisplayValue is                                *)
(*   [err, reason, value, source_id, crop_region, locked];                 *)
(* None is python's None, a reason is the words of the message.            *)
(***************************************************************************)
None == "<None>"

NodeDisplayValue(reason, value, source_id, crop_region, locked) ==
    [err |-> "", reason |-> reason, value |-> value, source_id |-> source_id,
     crop_region |-> crop_region, locked |-> locked]

DisplayRaised(kind) ==
    [err |-> kind, reason |-> <<>>, value |-> None, source_id |-> None,
     crop_region |-> NoCrop, locked |-> FALSE]

get_crop_region(g, node_id) ==
    IF IsAnnotationNode(g, node_id)
    THEN [err |-> "", val |-> g.attr[node_id].crop_region]
    ELSE [err |-> "ValueError", val |-> NoCrop]

\* rule 2 of the ImageCrop branch: the first Text child, then its deepest Text
leaf_crop_text(g, node_id, crop_data, first_text) ==
    LET deepest == find_deepest(g, first_text, "Text")
    IN IF deepest.err # "" THEN DisplayRaised(deepest.err)
       ELSE IF deepest.val = "" THEN DisplayRaised("ValueError")
       ELSE NodeDisplayValue(
                <<"Leaf", "crop", node_id, "with", "Text", "child:", "deepest",
                  "Text", "is", deepest.val>>,
                get_data(g, deepest.val), deepest.val, crop_data, FALSE)

\* the ImageCrop branch with the Text rule tried before the container rule
image_crop_display_text_first(g, node_id) ==
    LET crop == get_crop_region(g, node_id)
        crops == children_of_type(g, node_id, "ImageCrop")
        texts == children_of_type(g, node_id, "Text")
    IN IF crop.err # "" THEN DisplayRaised(crop.err)
       ELSE IF texts.val # <<>>
       THEN leaf_crop_text(g, node_id, crop.val, texts.val[1])
       ELSE IF crops.val # <<>>
       THEN NodeDisplayValue(
                <<node_id, "is", "a", "container", "crop:", "display", "blank">>,
                None, None, crop.val, TRUE)
       ELSE NodeDisplayValue(
                <<"Leaf", "crop", node_id, "without", "Text", "child">>,
                "", "", crop.val, FALSE)

image_crop_display(g, node_id) ==
    LET crop == get_crop_region(g, node_id)
        crops == children_of_type(g, node_id, "ImageCrop")
        texts == children_of_type(g, node_id, "Text")
    IN IF crop.err # "" THEN DisplayRaised(crop.err)
       ELSE IF crops.val # <<>>
       THEN NodeDisplayValue(
                <<node_id, "is", "a", "container", "crop:", "display", "blank">>,
                None, None, crop.val, TRUE)
       ELSE IF texts.val # <<>>
       THEN leaf_crop_text(g, node_id, crop.val, texts.val[1])
       ELSE NodeDisplayValue(
                <<"Leaf", "crop", node_id, "without", "Text", "child">>,
                "", "", crop.val, FALSE)

\* the Image rule without locked = True
image_display_unlocked(g, node_id) ==
    NodeDisplayValue(
        <<node_id, "is", "of", "collectra.Image", "type:", "display", "blank">>,
        None, None, NoCrop, FALSE)

image_display(g, node_id) ==
    NodeDisplayValue(
        <<node_id, "is", "of", "collectra.Image", "type:", "display", "blank">>,
        None, None, NoCrop, TRUE)

\* the rules for a node whose type is node_type
display_by_type(g, node_id, node_type) ==
    IF Contains(node_type, "Image") /\ ~Contains(node_type, "ImageCrop")
    THEN image_display(g, node_id)
    ELSE IF Contains(node_type, "ImageCrop")
    THEN image_crop_display(g, node_id)
    ELSE IF Contains(node_type, "Text")
    THEN NodeDisplayValue(<<"Text", "element:", "display", "data">>,
                          get_data(g, node_id), node_id, NoCrop, FALSE)
    ELSE NodeDisplayValue(<<"Unknown", "type">>, "", "", NoCrop, FALSE)

\* a resolver without the check for a missing node
compute_display_value_unguarded(g, node_id) ==
    display_by_type(g, node_id, get_type(g, node_id))

compute_display_value(g, node_id) ==
    IF ~HasNode(g, node_id)
    THEN NodeDisplayValue(<<node_id, "Element", "not", "found">>,
                          None, None, NoCrop, FALSE)
    ELSE display_by_type(g, node_id, get_type(g, node_id))

(***************************************************************************)
(* Api.get_all_nodes_for_grid: one row per id of the node list; the call   *)
(* is not wrapped, so a resolver failure ends it.                          *)
(***************************************************************************)
\* one row, given the display value computed for the node
grid_row_of(g, node_id, d) ==
    [id |-> node_id,
     type |-> get_type(g, node_id),
     data |-> get_data(g, node_id),
     displayValue |-> d.value,
     crop_region |-> d.crop_region,
     displaySourceId |-> d.source_id,
     reason |-> d.reason,
     parents |-> parents(g, node_id).val,
     children |-> children(g, node_id).val,
     locked |-> d.locked]

grid_row(g, node_id) == grid_row_of(g, node_id, compute_display_value(g, node_id))

\* the loop over the node list, given each node's display value: the first
\* compute_display_value that raises ends it
grid_rows(g, ds) ==
    IF \E i \in 1..Len(ds) : ds[i].err # ""
    THEN [err |-> ds[CHOOSE i \in 1..Len(ds) :
                        /\ ds[i].err # ""
                        /\ \A j \in 1..(i - 1) : ds[j].err = ""].err,
          rows |-> <<>>]
    ELSE [err |-> "", rows |-> [i \in 1..Len(ds) |-> grid_row_of(g, g.nodes[i], ds[i])]]

get_all_nodes_for_grid(g) ==
    grid_rows(g, [i \in 1..Len(g.nodes) |-> compute_display_value(g, g.nodes[i])])

(***************************************************************************)
(* Metadata and the import document.  A document is                        *)
(*   [metadata, entries]: metadata holds the keys of the                   *)
(*   collectra_results_metadata record the document carries (none when it  *)
(*   has no such record), entries the other keys in order, each            *)
(*   [label, value] with value one item or a list of items.                *)
(* An item is [kind, id, type, data, parents, crop]; kind = "scalar" for   *)
(* a list entry that is not a mapping.                                     *)
(***************************************************************************)
MetadataFields == {"version", "workflow", "timestamp"}

MetadataDefaults == [version |-> "1.0.0", workflow |-> "collectra_gui", timestamp |-> ""]

\* Metadata(**metadata)
Metadata(given) ==
    [f \in MetadataFields |-> IF f \in DOMAIN given THEN given[f] ELSE MetadataDefaults[f]]

Item(id, type, data, ps, crop) ==
    [kind |-> "dict", id |-> id, type |-> type, data |-> data, parents |-> ps,
     crop |-> crop]

Scalar ==
    [kind |-> "scalar", id |-> Absent, type |-> Absent, data |-> Absent,
     parents |-> NoItems, crop |-> NoCrop]

Entry(label, value) == [label |-> label, value |-> value]

\* the (label, item) pairs of a document in the order the import visits them
RECURSIVE labelled_items(_)
labelled_items(entries) ==
    IF entries = <<>> THEN <<>>
    ELSE LET items == normalise_items(Head(entries).value)
         IN [i \in 1..Len(items) |-> [label |-> Head(entries).label, item |-> items[i]]]
                \o labelled_items(Tail(entries))

RECURSIVE add_items(_, _)
add_items(g, todo) ==
    IF todo = <<>> THEN [err |-> "", graph |-> g]
    ELSE LET item == Head(todo).item
         IN IF item.kind = "dict" /\ item.id # Absent
            THEN LET r == add_node(g, [id |-> item.id, type |-> item.type,
                                       data |-> item.data, label |-> Head(todo).label,
                                       parents |-> item.parents, crop |-> item.crop])
                 IN IF r.err # "" THEN r ELSE add_items(r.graph, Tail(todo))
            ELSE add_items(g, Tail(todo))

\* returns [err, graph, metadata]; a raised error leaves the caller no graph
from_yaml_data(doc) ==
    LET built == add_items(EmptyGraph, labelled_items(doc.entries))
    IN [err |-> built.err,
        graph |-> built.graph,
        metadata |-> IF DOMAIN doc.metadata # {} THEN Metadata(doc.metadata)
                     ELSE MetadataDefaults]

(***************************************************************************)
(* Serializer.                                                             *)
(***************************************************************************)
\* CollectraNode.model_dump / CollectraAnnotationNode.model_dump: the label is
\* dropped, a one-element parents list becomes its element, the crop fields
\* are flattened into the mapping
model_dump(node) ==
    Item(node.id, node.type, node.data,
         IF Len(node.parents) = 1 THEN OneItem(node.parents[1]) ELSE ItemList(node.parents),
         node.crop_region)

\* the nodes to_yaml_data visits: ids of the node list that have a node object
dumped_ids(g) == SelectSeq(g.nodes, LAMBDA id : HasNode(g, id))

\* keys of yaml_data in insertion order
RECURSIVE label_keys(_, _, _)
label_keys(g, ids, keys) ==
    IF ids = <<>> THEN keys
    ELSE label_keys(g, Tail(ids), InsertKey(keys, g.attr[Head(ids)].label))

\* returns the document [metadata, entries]
to_yaml_data(g, metadata) ==
    LET ids == dumped_ids(g)
        keys == label_keys(g, ids, <<>>)
        group(key) == SelectSeq(ids, LAMBDA id : g.attr[id].label = key)
        dumps(key) == [i \in 1..Len(group(key)) |-> model_dump(g.attr[group(key)[i]])]
    IN [metadata |-> metadata,
        entries |-> [k \in 1..Len(keys) |->
                        Entry(keys[k],
                              IF Len(dumps(keys[k])) = 1
                              THEN OneItem(dumps(keys[k])[1])
                              ELSE ItemList(dumps(keys[k])))]]

\* model_dump raises ValueError when the dump holds no label: a label that is
\* None, which no CollectraNode has (label: str = "")
to_yaml_data_raises(g) == \E id \in DOMAIN g.attr : g.attr[id].label = None

(***************************************************************************)
(* Documents the graph is built from.                                      *)
(***************************************************************************)
NoMetadata == [f \in {} |-> ""]

NoDoc == [metadata |-> NoMetadata, entries |-> <<>>]

\* Image -> ImageCrop -> Text, every label holding a one-element list
ScenarioDoc ==
    [metadata |-> [version |-> "1.0"],
     entries |-> <<
        Entry("image_label", ItemList(<<Item("a", ImageType, "test_image.jpg",
                                             NoItems, NoCrop)>>)),
        Entry("crop_label", ItemList(<<Item("b", ImageCropType, "test_image.jpg",
                                            OneItem("a"), RegionFor("b"))>>)),
        Entry("text_label", ItemList(<<Item("c", TextType, "Hello World",
                                            OneItem("b"), NoCrop)>>)) >>]

\* a leaf crop and a chain of two text corrections under one label
ChainDoc ==
    [metadata |-> [version |-> "1.0", timestamp |-> "t0"],
     entries |-> <<
        Entry("leaf_crop", OneItem(Item("a", ImageCropType, "test_image.jpg",
                                        NoItems, RegionFor("a")))),
        Entry("text_label", ItemList(<<
            Item("b", TextType, "First text", ItemList(<<"a">>), NoCrop),
            Item("c", TextType, "Deepest text", OneItem("b"), NoCrop) >>)) >>]

\* a container crop that also has a Text child
ContainerDoc ==
    [metadata |-> NoMetadata,
     entries |-> <<
        Entry("container_crop", OneItem(Item("a", ImageCropType, "test_image.jpg",
                                             NoItems, RegionFor("a")))),
        Entry("text_label", OneItem(Item("c", TextType, "Stray text",
                                         OneItem("a"), NoCrop))),
        Entry("leaf_crop", OneItem(Item("b", ImageCropType, "test_image.jpg",
                                        OneItem("a"), RegionFor("b")))) >>]

\* two Text nodes that name each other as parent
CycleDoc ==
    [metadata |-> NoMetadata,
     entries |-> <<
        Entry("leaf_crop", OneItem(Item("a", ImageCropType, "test_image.jpg",
                                        NoItems, RegionFor("a")))),
        Entry("text_label", ItemList(<<
            Item("b", TextType, "First text", ItemList(<<"c", "a">>), NoCrop),
            Item("c", TextType, "Second text", OneItem("b"), NoCrop) >>)) >>]

\* the id "a" occurs twice
DuplicateDoc ==
    [metadata |-> [version |-> "1.0"],
     entries |-> <<
        Entry("text_label", ItemList(<<
            Item("a", TextType, "Old text", NoItems, NoCrop),
            Item("b", TextType, "Other text", OneItem("a"), NoCrop) >>)),
        Entry("more_text", OneItem(Item("a", TextType, "New text",
                                        OneItem("b"), NoCrop))) >>]

\* entries the import skips, a child listed before its parent, a node without
\* data, a parent that is never listed
MixedDoc ==
    [metadata |-> NoMetadata,
     entries |-> <<
        Entry("notes", ItemList(<<Scalar,
                                  Item(Absent, TextType, "no id", NoItems, NoCrop)>>)),
        Entry("text_label", OneItem(Item("b", TextType, "Hello World",
                                         OneItem("a"), NoCrop))),
        Entry("crop_label", ItemList(<<
            Item("a", ImageCropType, Absent, ItemList(<<"c">>), RegionFor("a"))>>)),
        Entry("empty_label", NoItems) >>]

\* a Text node that names itself as parent, with a correction below it
SelfLoopDoc ==
    [metadata |-> NoMetadata,
     entries |-> <<
        Entry("leaf_crop", OneItem(Item("a", ImageCropType, "test_image.jpg",
                                        NoItems, RegionFor("a")))),
        Entry("text_label", ItemList(<<
            Item("b", TextType, "First text", ItemList(<<"b", "a">>), NoCrop),
            Item("c", TextType, "Second text", OneItem("b"), NoCrop) >>)) >>]

\* a text with two corrections, every node under a label of its own
BranchDoc ==
    [metadata |-> [version |-> "1.0"],
     entries |-> <<
        Entry("leaf_crop", OneItem(Item("a", ImageCropType, "test_image.jpg",
                                        NoItems, RegionFor("a")))),
        Entry("text_label", OneItem(Item("b", TextType, "First text",
                                         OneItem("a"), NoCrop))),
        Entry("correction", OneItem(Item("c", TextType, "Second text",
                                         OneItem("b"), NoCrop))),
        Entry("other_correction", OneItem(Item("d", TextType, "Third text",
                                               OneItem("b"), NoCrop))) >>]

\* the second node lacks a crop field
BrokenDoc ==
    [metadata |-> [version |-> "1.0"],
     entries |-> <<
        Entry("image_label", OneItem(Item("a", ImageType, "test_image.jpg",
                                          NoItems, NoCrop))),
        Entry("crop_label", OneItem(Item("b", ImageCropType, "test_image.jpg",
                                         OneItem("a"),
                                         Restrict(RegionFor("b"),
                                                  CropFields \ {"height_relative"})))) >>]

Docs == {ScenarioDoc, ChainDoc, ContainerDoc, CycleDoc, SelfLoopDoc, BranchDoc,
         DuplicateDoc, MixedDoc, BrokenDoc}

\* the orders a sequence can be written in
Orders(s) ==
    {[i \in 1..Len(s) |-> s[q[i]]] : q \in Permutations(1..Len(s))}

\* the entries with the items of every list in any order
RECURSIVE ItemOrders(_)
ItemOrders(entries) ==
    IF entries = <<>> THEN {<<>>}
    ELSE {<<[Head(entries) EXCEPT !.value.items = items]>> \o rest :
            items \in Orders(Head(entries).value.items),
            rest \in ItemOrders(Tail(entries))}

\* the documents that hold the entries of d, labels and items in any order
Reorderings(d) ==
    {[d EXCEPT !.entries = entries] :
        entries \in UNION {Orders(es) : es \in ItemOrders(d.entries)}}

(***************************************************************************)
(* Api: the adapter pywebview exposes.  Its state is                       *)
(* [loaded, yaml_path, file]: loaded says that _graph is set, yaml_path is *)
(* _yaml_path (None before the first successful load), file is the         *)
(* document the results file holds.  A call returns                        *)
(*   [success, error, raised]: raised is "" when the call returns a dict,  *)
(*   else the exception that leaves the adapter.                           *)
(***************************************************************************)
NoGraphLoaded == "No graph loaded. Call load_yaml first."

Success == [success |-> TRUE, error |-> "", raised |-> ""]

Failure(error) == [success |-> FALSE, error |-> error, raised |-> ""]

Propagated(kind) == [success |-> FALSE, error |-> "", raised |-> kind]

\* the results file, and a second path that names the same file
YamlPath == "results.yaml"
AliasPath == "./results.yaml"
\* a file whose document fails validation, a file that is not YAML, no file
BrokenPath == "broken.yaml"
GarbledPath == "garbled.yaml"
MissingPath == "missing.yaml"
Paths == {YamlPath, AliasPath, BrokenPath, GarbledPath, MissingPath}

\* open(path) and yaml.safe_load: returns [err, doc]
safe_load(a, path) ==
    IF path = MissingPath THEN [err |-> "FileNotFoundError", doc |-> NoDoc]
    ELSE IF path = GarbledPath THEN [err |-> "YAMLError", doc |-> NoDoc]
    ELSE IF path = BrokenPath THEN [err |-> "", doc |-> BrokenDoc]
    ELSE [err |-> "", doc |-> a.file]

\* a load that records the path before the graph is built
load_yaml_path_first(a, g, md, path, yaml_data, r) ==
    IF yaml_data.err # ""
    THEN [result |-> Failure(yaml_data.err), graph |-> g, metadata |-> md,
          loaded |-> a.loaded, yaml_path |-> a.yaml_path]
    ELSE IF r.err # ""
    THEN [result |-> Failure(r.err), graph |-> g, metadata |-> md,
          loaded |-> a.loaded, yaml_path |-> path]
    ELSE [result |-> Success, graph |-> r.graph, metadata |-> r.metadata,
          loaded |-> TRUE, yaml_path |-> path]

\* the try block of load_yaml, given what safe_load and from_yaml_data return
load_yaml_from(a, g, md, path, yaml_data, r) ==
    IF yaml_data.err # ""
    THEN [result |-> Failure(yaml_data.err), graph |-> g, metadata |-> md,
          loaded |-> a.loaded, yaml_path |-> a.yaml_path]
    ELSE IF r.err # ""
    THEN [result |-> Failure(r.err), graph |-> g, metadata |-> md,
          loaded |-> a.loaded, yaml_path |-> a.yaml_path]
    ELSE [result |-> Success, graph |-> r.graph, metadata |-> r.metadata,
          loaded |-> TRUE, yaml_path |-> path]

\* returns [result, graph, metadata, loaded, yaml_path]
load_yaml(a, g, md, path) ==
    load_yaml_from(a, g, md, path, safe_load(a, path),
                   from_yaml_data(safe_load(a, path).doc))

\* try: ... return {"success": True, ...} except Exception as e: ...
Caught(r) == IF r.err # "" THEN Failure(r.err) ELSE Success

\* the same call outside any try block
Uncaught(r) == IF r.err # "" THEN Propagated(r.err) ELSE Success

Api_get_display_value(a, g, node_id) ==
    IF ~a.loaded THEN Failure(NoGraphLoaded)
    ELSE Caught(compute_display_value(g, node_id))

\* an adapter that lists the nodes of a graph it does not have
Api_get_all_nodes_unchecked(a, g) == Success

Api_get_all_nodes(a, g) ==
    IF ~a.loaded THEN Failure(NoGraphLoaded) ELSE Success

Api_get_node_info(a, g, node_id) ==
    IF ~a.loaded THEN Failure(NoGraphLoaded)
    ELSE IF ~InGraph(g, node_id) THEN Failure("Node not found")
    ELSE IF children(g, node_id).err # "" THEN Propagated(children(g, node_id).err)
    ELSE IF parents(g, node_id).err # "" THEN Propagated(parents(g, node_id).err)
    ELSE Success

Api_get_nodes_by_type(a, g, type_filter) ==
    IF ~a.loaded THEN Failure(NoGraphLoaded) ELSE Success

\* the rows are built outside any try block
Api_get_all_nodes_for_grid(a, g) ==
    IF ~a.loaded THEN Failure(NoGraphLoaded)
    ELSE Uncaught(get_all_nodes_for_grid(g))

\* _save_to_yaml: returns [err, file]; io_ok says whether the file can be written
save_to_yaml(a, g, md, io_ok) ==
    IF a.yaml_path = None \/ ~a.loaded
    THEN [err |-> "ValueError: No YAML file loaded to save to.", file |-> a.file]
    ELSE IF ~io_ok THEN [err |-> "OSError", file |-> a.file]
    ELSE [err |-> "", file |-> to_yaml_data(g, md)]

\* an exception raised by the rows, inside the try block of a mutation
CaughtRows(r) == IF r.raised # "" THEN Failure(r.raised) ELSE r

\* a tail that answers with the rows without writing the file
refresh_without_save(a, g, md, io_ok) ==
    [result |-> CaughtRows(Api_get_all_nodes_for_grid(a, g)),
     graph |-> g, file |-> a.file, wrote |-> FALSE]

\* self._save_to_yaml(); return self.get_all_nodes_for_grid(), inside the
\* try block of a mutation: returns [result, graph, file, wrote]
save_and_refresh(a, g, md, io_ok) ==
    LET saved == save_to_yaml(a, g, md, io_ok)
    IN IF saved.err # ""
       THEN [result |-> Failure(saved.err), graph |-> g, file |-> a.file,
             wrote |-> FALSE]
       ELSE [result |-> CaughtRows(Api_get_all_nodes_for_grid(a, g)),
             graph |-> g, file |-> saved.file, wrote |-> TRUE]

\* a mutation that stops before it saves
Rejected(a, g, error) ==
    [result |-> Failure(error), graph |-> g, file |-> a.file, wrote |-> FALSE]

Api_update_node_data(a, g, md, node_id, new_data, crop_id, io_ok) ==
    LET r == set_data(g, node_id, new_data, crop_id)
    IN IF ~a.loaded THEN Rejected(a, g, NoGraphLoaded)
       ELSE IF r.err # "" THEN Rejected(a, g, r.err)
       ELSE save_and_refresh(a, r.graph, md, io_ok)

Api_update_node_coordinates(a, g, md, node_id, crop_region, io_ok) ==
    LET r == set_crop_region(g, node_id, crop_region)
    IN IF ~a.loaded THEN Rejected(a, g, NoGraphLoaded)
       ELSE IF r.err # "" THEN Rejected(a, g, r.err)
       ELSE save_and_refresh(a, r.graph, md, io_ok)

\* the first node of the node list whose type is Image and not ImageCrop
RootImages(g) ==
    {i \in 1..Len(g.nodes) : /\ Contains(get_type(g, g.nodes[i]), "Image")
                             /\ ~Contains(get_type(g, g.nodes[i]), "ImageCrop")}

FolderImage == "folder name"

Api_create_annotation(a, g, md, crop_region, label, parent_id, io_ok) ==
    LET root_image_id == g.nodes[CHOOSE i \in RootImages(g) :
                                    \A j \in RootImages(g) : i <= j]
        r == add_node(g, [id |-> FreshId(g), type |-> ImageCropType,
                          data |-> FolderImage, label |-> label,
                          parents |-> OneItem(IF parent_id # "" THEN parent_id
                                              ELSE root_image_id),
                          crop |-> crop_region])
    IN IF ~a.loaded THEN Rejected(a, g, NoGraphLoaded)
       ELSE IF RootImages(g) = {}
       THEN Rejected(a, g, "No root Image node found in graph.")
       ELSE IF r.err # "" THEN Rejected(a, g, r.err)
       ELSE save_and_refresh(a, r.graph, md, io_ok)

\* for text_id in text_children: self._graph.remove_node(text_id)
RECURSIVE remove_nodes(_, _)
remove_nodes(g, ids) ==
    IF ids = <<>> THEN [err |-> "", graph |-> g]
    ELSE LET r == remove_node(g, Head(ids))
         IN IF r.err # "" THEN r ELSE remove_nodes(r.graph, Tail(ids))

\* an adapter that deletes the crop and leaves its Text children
Api_delete_annotation_crop_only(a, g, md, node_id, io_ok) ==
    LET r == remove_node(g, node_id)
    IN IF ~a.loaded THEN Rejected(a, g, NoGraphLoaded)
       ELSE IF r.err # "" THEN Rejected(a, g, r.err)
       ELSE save_and_refresh(a, r.graph, md, io_ok)

\* a failure after the first removal leaves the graph as far as it got
Api_delete_annotation(a, g, md, node_id, io_ok) ==
    LET text_children == children_of_type(g, node_id, "Text")
        texts == remove_nodes(g, text_children.val)
        r == remove_node(texts.graph, node_id)
    IN IF ~a.loaded THEN Rejected(a, g, NoGraphLoaded)
       ELSE IF text_children.err # "" THEN Rejected(a, g, text_children.err)
       ELSE IF texts.err # "" THEN Rejected(a, texts.graph, texts.err)
       ELSE IF r.err # "" THEN Rejected(a, r.graph, r.err)
       ELSE save_and_refresh(a, r.graph, md, io_ok)

(***************************************************************************)
(* The state machine: one graph, built empty or from a document, then      *)
(* mutated by add_node, remove_node, set_data and set_crop_region.         *)
(***************************************************************************)
VARIABLES
    graph,     \* the CollectraGraph's networkx DiGraph
    metadata,  \* the CollectraGraph's metadata
    doc,       \* the document the graph was built from
    prev,      \* the graph as it was when the last call was made
    last,      \* the last call: operation, id and type passed, exception raised
    ops,       \* mutating calls made so far
    api,       \* the Api that holds the graph: [loaded, yaml_path, file]
    dfs        \* the locals of a running dfs_leaves call

vars == <<graph, metadata, doc, prev, last, ops, api, dfs>>

\* no Api around the graph
NoApi == [loaded |-> FALSE, yaml_path |-> None, file |-> NoDoc]

\* missing: the crop keys an ImageCrop bag lacks; named_parents: the bag has parents
Call(op, id, type, err) ==
    [op |-> op, id |-> id, type |-> type, err |-> err, missing |-> {},
     named_parents |-> FALSE, arg |-> Absent, region |-> NoCrop,
     success |-> (err = ""), raised |-> "", wrote |-> FALSE, was |-> NoApi]

Init ==
    /\ graph = EmptyGraph
    /\ metadata = MetadataDefaults
    /\ doc = NoDoc
    /\ prev = EmptyGraph
    /\ last = Call("CollectraGraph", Absent, Absent, "")
    /\ ops = 0
    /\ api = NoApi
    /\ dfs = NoDfs

\* graph = CollectraGraph.from_yaml_data(d), in place of the empty graph
FromYamlData ==
    /\ last.op = "CollectraGraph"
    /\ \E d \in Docs :
         LET r == from_yaml_data(d)
         IN /\ graph' = IF r.err = "" THEN r.graph ELSE graph
            /\ metadata' = IF r.err = "" THEN r.metadata ELSE metadata
            /\ doc' = d
            /\ last' = Call("from_yaml_data", Absent, Absent, r.err)
    /\ prev' = graph
    /\ UNCHANGED <<ops, api, dfs>>

AddNode ==
    /\ ops < MaxOps
    /\ \E id \in Ids \cup {Absent}, type \in Types \cup {Absent},
          ps \in ParentInputs :
         \E data \in DataInputs(id), label \in LabelInputs,
            crop \in BagCropInputs(id, type) :
            LET r == add_node(graph, [id |-> id, type |-> type, data |-> data,
                                      label |-> label, parents |-> ps, crop |-> crop])
            IN /\ graph' = r.graph
               /\ last' = [Call("add_node", id, type, r.err) EXCEPT
                              !.missing = IF Contains(OrDefault(type, ""), "ImageCrop")
                                          THEN CropFields \ DOMAIN crop ELSE {},
                              !.named_parents = (normalise_items(ps) # <<>>)]
    /\ prev' = graph
    /\ ops' = ops + 1
    /\ UNCHANGED <<metadata, doc, api, dfs>>

RemoveNode ==
    /\ ops < MaxOps
    /\ \E id \in Ids :
         LET r == remove_node(graph, id)
         IN /\ graph' = r.graph
            /\ last' = Call("remove_node", id, Absent, r.err)
    /\ prev' = graph
    /\ ops' = ops + 1
    /\ UNCHANGED <<metadata, doc, api, dfs>>

\* crop_id is None, "" or an id: the first two are both falsy
SetData ==
    /\ ops < MaxOps
    /\ \E id \in Ids \cup {""}, crop_id \in Ids \cup {""} :
         LET r == set_data(graph, id, EditedData, crop_id)
         IN /\ graph' = r.graph
            /\ last' = [Call("set_data", id, Absent, r.err) EXCEPT !.arg = crop_id]
    /\ prev' = graph
    /\ ops' = ops + 1
    /\ UNCHANGED <<metadata, doc, api, dfs>>

SetCropRegion ==
    /\ ops < MaxOps
    /\ \E id \in Ids, region \in RegionInputs :
         LET r == set_crop_region(graph, id, region)
         IN /\ graph' = r.graph
            /\ last' = [Call("set_crop_region", id, Absent, r.err) EXCEPT
                           !.region = region]
    /\ prev' = graph
    /\ ops' = ops + 1
    /\ UNCHANGED <<metadata, doc, api, dfs>>

Next == FromYamlData \/ AddNode \/ RemoveNode \/ SetData \/ SetCropRegion

Spec == Init /\ [][Next]_vars

(***************************************************************************)
(* The adapter's state machine: an Api over a YAML file, load_yaml, then   *)
(* the mutation entry points.                                              *)
(***************************************************************************)
ApiCall(op, id, arg, region, r) ==
    [Call(op, id, Absent, r.result.error) EXCEPT
        !.arg = arg, !.region = region,
        !.success = r.result.success, !.raised = r.result.raised,
        !.wrote = r.wrote, !.was = api]

ApiInit ==
    /\ graph = EmptyGraph
    /\ metadata = MetadataDefaults
    /\ doc = NoDoc
    /\ prev = EmptyGraph
    /\ last = Call("Api", Absent, Absent, "")
    /\ ops = 0
    /\ api \in {[loaded |-> FALSE, yaml_path |-> None, file |-> d] : d \in Docs}
    /\ dfs = NoDfs

LoadYaml ==
    /\ ops < MaxOps
    /\ \E path \in Paths :
         LET r == load_yaml(api, graph, metadata, path)
         IN /\ graph' = r.graph
            /\ metadata' = r.metadata
            /\ api' = [api EXCEPT !.loaded = r.loaded, !.yaml_path = r.yaml_path]
            /\ doc' = IF r.result.success THEN api.file ELSE doc
            /\ last' = [Call("load_yaml", Absent, Absent, r.result.error) EXCEPT
                           !.arg = path, !.was = api]
    /\ prev' = graph
    /\ UNCHANGED <<ops, dfs>>

\* what a mutation entry point leaves behind
Mutated(op, id, arg, region, r) ==
    /\ graph' = r.graph
    /\ api' = [api EXCEPT !.file = r.file]
    /\ last' = ApiCall(op, id, arg, region, r)
    /\ prev' = graph
    /\ ops' = ops + 1
    /\ UNCHANGED <<metadata, doc, dfs>>

UpdateNodeData ==
    /\ ops < MaxOps
    /\ \E id \in Ids \cup {""}, crop_id \in Ids \cup {""}, io_ok \in BOOLEAN :
         LET r == Api_update_node_data(api, graph, metadata, id, EditedData,
                                       crop_id, io_ok)
         IN Mutated("update_node_data", id, crop_id, NoCrop, r)

UpdateNodeCoordinates ==
    /\ ops < MaxOps
    /\ \E id \in Ids, region \in RegionInputs, io_ok \in BOOLEAN :
         LET r == Api_update_node_coordinates(api, graph, metadata, id, region, io_ok)
         IN Mutated("update_node_coordinates", id, Absent, region, r)

CreateAnnotation ==
    /\ ops < MaxOps
    /\ \E region \in RegionInputs, label \in {"", "user_label"},
          parent_id \in Ids \cup {""}, io_ok \in BOOLEAN :
         LET r == Api_create_annotation(api, graph, metadata, region, label,
                                        parent_id, io_ok)
         IN Mutated("create_annotation", FreshId(graph), parent_id, region, r)

DeleteAnnotation ==
    /\ ops < MaxOps
    /\ \E id \in Ids, io_ok \in BOOLEAN :
         LET r == Api_delete_annotation(api, graph, metadata, id, io_ok)
         IN Mutated("delete_annotation", id, Absent, NoCrop, r)

ApiNext ==
    \/ LoadYaml
    \/ UpdateNodeData
    \/ UpdateNodeCoordinates
    \/ CreateAnnotation
    \/ DeleteAnnotation

ApiSpec == ApiInit /\ [][ApiNext]_vars

(***************************************************************************)
(* The traversal as a process: a graph is imported, then dfs_leaves is     *)
(* called and its while loop runs one iteration per step.  The loop is     *)
(* sequential code, so an enabled iteration is eventually taken.           *)
(***************************************************************************)
TypeFilters == {"Image", "ImageCrop", "Text"}

\* dfs_leaves(start, type_filter) is called
DfsStart ==
    /\ last.op # "CollectraGraph"
    /\ ~dfs.running
    /\ \E start \in Ids, type_filter \in TypeFilters :
            dfs' = dfs_enter(start, type_filter)
    /\ UNCHANGED <<graph, metadata, doc, prev, last, ops, api>>

\* while stack: one iteration
DfsStep ==
    /\ dfs.running
    /\ dfs.stack # <<>>
    /\ dfs' = dfs_step(graph, dfs,
                       children_of_type(graph, dfs.stack[Len(dfs.stack)],
                                        dfs.type_filter))
    /\ UNCHANGED <<graph, metadata, doc, prev, last, ops, api>>

\* return leaves
DfsReturn ==
    /\ dfs.running
    /\ dfs.stack = <<>>
    /\ dfs' = [dfs EXCEPT !.running = FALSE]
    /\ UNCHANGED <<graph, metadata, doc, prev, last, ops, api>>

DfsNext == FromYamlData \/ DfsStart \/ DfsStep \/ DfsReturn

DfsSpec ==
    /\ Init
    /\ [][DfsNext]_vars
    /\ WF_vars(DfsStep)
    /\ WF_vars(DfsReturn)

(***************************************************************************)
(* Import as a function of the order of the document: a document is        *)
(* imported, then the same entries are imported again in another order,    *)
(* prev being the graph of the order before.                               *)
(***************************************************************************)
FromYamlDataReordered ==
    /\ last.op # "CollectraGraph"
    /\ \E d \in Reorderings(doc) :
         LET r == from_yaml_data(d)
         IN /\ graph' = IF r.err = "" THEN r.graph ELSE graph
            /\ metadata' = IF r.err = "" THEN r.metadata ELSE metadata
            /\ last' = [Call("from_yaml_data, reordered", Absent, Absent, r.err)
                           EXCEPT !.arg = d]
    /\ prev' = graph
    /\ UNCHANGED <<doc, ops, api, dfs>>

ImportNext == FromYamlData \/ FromYamlDataReordered

ImportSpec == Init /\ [][ImportNext]_vars

(***************************************************************************)
(* Vocabulary of the properties, stated on the graph's adjacency and node  *)
(* objects directly.                                                       *)
(***************************************************************************)
NodeIds(g) == Range(g.nodes)

IsCropNode(g, id) == HasNode(g, id) /\ Contains(g.attr[id].type, "ImageCrop")

IsImageNode(g, id) ==
    /\ HasNode(g, id)
    /\ Contains(g.attr[id].type, "Image")
    /\ ~Contains(g.attr[id].type, "ImageCrop")

IsTagged(g, id, tag) == HasNode(g, id) /\ Contains(g.attr[id].type, tag)

\* positions in the children list of id that hold a child of the given tag
TaggedPositions(g, id, tag) ==
    {i \in 1..Len(g.succ[id]) : IsTagged(g, g.succ[id][i], tag)}

HasChildOf(g, id, tag) == TaggedPositions(g, id, tag) # {}

FirstChildOf(g, id, tag) ==
    g.succ[id][CHOOSE i \in TaggedPositions(g, id, tag) :
                    \A j \in TaggedPositions(g, id, tag) : i <= j]

\* ids reachable from the ids in `from` along edges into nodes of the tag
RECURSIVE ReachableVia(_, _, _)
ReachableVia(g, from, tag) ==
    LET more == from \cup {c \in NodeIds(g) :
                            \E n \in from : /\ InGraph(g, n)
                                            /\ c \in Range(g.succ[n])
                                            /\ IsTagged(g, c, tag)}
    IN IF more = from THEN from ELSE ReachableVia(g, more, tag)

\* the terminal nodes of the tag's chains that start at `start`
TerminalNodes(g, start, tag) ==
    {n \in ReachableVia(g, {start}, tag) : ~HasChildOf(g, n, tag)}

Blank(v) == v \in {None, ""}

\* the words of `phrase` occur in `reason`, next to each other
HasPhrase(reason, phrase) ==
    \E i \in 1..Len(reason) :
        /\ i + Len(phrase) - 1 <= Len(reason)
        /\ SubSeq(reason, i, i + Len(phrase) - 1) = phrase

LeafCropWithText(g, id) ==
    /\ IsCropNode(g, id)
    /\ ~HasChildOf(g, id, "ImageCrop")
    /\ HasChildOf(g, id, "Text")

\* the result C1 describes: the data and id of a terminal Text node
ShowsTerminalText(g, id, d) ==
    /\ d.err = ""
    /\ d.source_id \in TerminalNodes(g, FirstChildOf(g, id, "Text"), "Text")
    /\ d.value = g.attr[d.source_id].data
    /\ d.locked = FALSE
    /\ d.crop_region = g.attr[id].crop_region

(***************************************************************************)
(* C1.  As claimed: for every ImageCrop node with no ImageCrop child and   *)
(* at least one Text child, compute_display_value returns the data and id  *)
(* of the terminal node of the Text chain that starts at its first Text    *)
(* child, with locked = false and the node's crop region.                  *)
(***************************************************************************)
C1_AsClaimed ==
    \A id \in NodeIds(graph) :
        LeafCropWithText(graph, id)
            => ShowsTerminalText(graph, id, compute_display_value(graph, id))

(***************************************************************************)
(* C1, amended.  For every ImageCrop node with no ImageCrop child and at   *)
(* least one Text child: when a Text node without Text children can be     *)
(* reached from the first Text child by following Text children,           *)
(* compute_display_value returns the data and id of such a terminal node   *)
(* (the only one, when the Text nodes form a chain), locked = false and the *)
(* node's crop region; when none can be reached (the Text children lead    *)
(* back into a cycle) it raises ValueError.                                *)
(***************************************************************************)
C1_TerminalTextOrRaise ==
    \A id \in NodeIds(graph) :
        LeafCropWithText(graph, id)
            => LET d == compute_display_value(graph, id)
               IN IF TerminalNodes(graph, FirstChildOf(graph, id, "Text"), "Text") = {}
                  THEN d.err = "ValueError"
                  ELSE ShowsTerminalText(graph, id, d)

\* a leaf crop whose text was corrected: the value shown is not the first Text child's
C1_Witness ==
    \E id \in NodeIds(graph) :
        /\ LeafCropWithText(graph, id)
        /\ ShowsTerminalText(graph, id, compute_display_value(graph, id))
        /\ compute_display_value(graph, id).source_id # FirstChildOf(graph, id, "Text")

C3_EmptyLeafCropBlankUnlocked ==
    \A id \in NodeIds(graph) :
        (/\ IsCropNode(graph, id)
         /\ ~HasChildOf(graph, id, "ImageCrop")
         /\ ~HasChildOf(graph, id, "Text"))
            => LET d == compute_display_value(graph, id)
               IN /\ d.err = ""
                  /\ Blank(d.value)
                  /\ Blank(d.source_id)
                  /\ d.locked = FALSE
                  /\ d.crop_region = graph.attr[id].crop_region

\* a crop whose only children are neither crops nor texts
C3_Witness ==
    \E id \in NodeIds(graph) :
        /\ IsCropNode(graph, id)
        /\ graph.succ[id] # <<>>
        /\ ~HasChildOf(graph, id, "ImageCrop")
        /\ ~HasChildOf(graph, id, "Text")
        /\ compute_display_value(graph, id).crop_region = RegionFor(id)

NodeTuples(d) ==
    LET items == labelled_items(d.entries)
    IN {<<items[i].item.id, items[i].item.type, OrDefault(items[i].item.data, ""),
          normalise_items(items[i].item.parents)>> :
            i \in {j \in 1..Len(items) : /\ items[j].item.kind = "dict"
                                          /\ items[j].item.id # Absent}}

C6_RoundTripKeepsTuples ==
    (last.op = "from_yaml_data" /\ last.err = "")
        => NodeTuples(to_yaml_data(graph, metadata)) = NodeTuples(doc)

(***************************************************************************)
(* C7.  remove_node(id) on an id of the node list removes the node and     *)
(* every edge in which it is parent or child in one step: afterwards id is *)
(* not in the node list and in neither children(n) nor parents(n) of any   *)
(* remaining node n, and the other nodes remain; remove_node on an id that *)
(* is not in the node list fails and changes nothing.                      *)
(***************************************************************************)
C7_RemoveNodeRemovesIncidentEdges ==
    last.op = "remove_node"
        => IF InGraph(prev, last.id)
           THEN /\ last.err = ""
                /\ last.id \notin NodeIds(graph)
                /\ ~HasNode(graph, last.id)
                /\ NodeIds(graph) = NodeIds(prev) \ {last.id}
                /\ \A n \in NodeIds(graph) :
                        /\ children(graph, n).err = ""
                        /\ parents(graph, n).err = ""
                        /\ last.id \notin Range(children(graph, n).val)
                        /\ last.id \notin Range(parents(graph, n).val)
           ELSE last.err # "" /\ graph = prev

\* the removed node had a parent and a child
C7_Witness ==
    /\ last.op = "remove_node"
    /\ last.err = ""
    /\ HasNode(prev, last.id)
    /\ prev.succ[last.id] # <<>>
    /\ prev.pred[last.id] # <<>>
    /\ last.id \notin NodeIds(graph)

(***************************************************************************)
(* C8.  add_node with an id that already has a node in the graph fails     *)
(* with a duplicate-id error and leaves the existing node, its data and    *)
(* all edges unchanged.                                                    *)
(***************************************************************************)
C8_DuplicateIdRejected ==
    (last.op = "add_node" /\ HasNode(prev, last.id))
        => last.err # "" /\ graph = prev

C10_UnknownIdRaises ==
    \A id \in Ids :
        /\ ~HasNode(graph, id)
                => children(graph, id).err # "" /\ parents(graph, id).err # ""
        /\ (HasNode(graph, id) /\ graph.succ[id] = <<>>)
                => children(graph, id) = [err |-> "", val |-> <<>>]
        /\ (HasNode(graph, id) /\ graph.pred[id] = <<>>)
                => parents(graph, id) = [err |-> "", val |-> <<>>]

(***************************************************************************)
(* Vocabulary of the properties about edits and the adapter.               *)
(***************************************************************************)
\* the edge relation the DiGraph holds
Edges(g) == {<<p, n>> \in (DOMAIN g.succ) \X (DOMAIN g.succ) : p \in Range(g.pred[n])}

\* the edge relation recomputed from the parents field of the node objects
DeclaredEdges(g) ==
    UNION {{<<p, n>> : p \in Range(g.attr[n].parents)} : n \in DOMAIN g.attr}

SameShape(g, h) == g.nodes = h.nodes /\ g.succ = h.succ /\ g.pred = h.pred

\* every node object of h other than id is the same in g
OthersKept(g, h, id) ==
    \A m \in (DOMAIN h.attr) \ {id} : m \in DOMAIN g.attr /\ g.attr[m] = h.attr[m]

ApiMutations ==
    {"update_node_data", "update_node_coordinates", "create_annotation",
     "delete_annotation"}

TextChildren(g, id) == {c \in Range(g.succ[id]) : IsTagged(g, c, "Text")}

(***************************************************************************)
(* C11.  set_data never changes the set of nodes or edges: for an id that  *)
(* names a node it changes only that node's data; for any id that names no *)
(* node (the empty id included) it fails and leaves the graph unchanged,   *)
(* whatever crop_id is passed.                                             *)
(***************************************************************************)
C11_SetDataKeepsNodesAndEdges ==
    last.op = "set_data"
        => /\ SameShape(graph, prev)
           /\ IF HasNode(prev, last.id)
              THEN /\ last.err = ""
                   /\ graph.attr[last.id] = [prev.attr[last.id] EXCEPT !.data = EditedData]
                   /\ OthersKept(graph, prev, last.id)
              ELSE last.err # "" /\ graph = prev

(***************************************************************************)
(* C12.  update_node_data on a loaded Api: with an empty node_id and a     *)
(* crop_id it adds exactly one node object, a Text node whose parent is    *)
(* crop_id and whose data is the given text, and keeps every other node    *)
(* object; with a non-empty node_id the node list is unchanged whatever    *)
(* crop_id is, and when node_id names a node that node's data becomes the  *)
(* given text and nothing else changes.                                    *)
(***************************************************************************)
C12_UpdateNodeDataAddsOrEdits ==
    (last.op = "update_node_data" /\ last.was.loaded)
        => /\ (last.id = "" /\ last.arg # "")
                => \E n \in NodeIds(graph) \ NodeIds(prev) :
                        /\ DOMAIN graph.attr = (DOMAIN prev.attr) \cup {n}
                        /\ graph.attr[n].type = TextType
                        /\ graph.attr[n].data = EditedData
                        /\ graph.attr[n].parents = <<last.arg>>
                        /\ parents(graph, n).val = <<last.arg>>
                        /\ children(graph, n).val = <<>>
                        /\ OthersKept(graph, prev, n)
           /\ last.id # ""
                => /\ SameShape(graph, prev)
                   /\ OthersKept(graph, prev, last.id)
                   /\ HasNode(prev, last.id)
                        => graph.attr[last.id] =
                                [prev.attr[last.id] EXCEPT !.data = EditedData]
                   /\ ~HasNode(prev, last.id) => graph = prev /\ ~last.success

\* a text typed for a crop that had none, saved and answered with the rows
C12_Witness ==
    /\ last.op = "update_node_data"
    /\ last.id = ""
    /\ IsCropNode(prev, last.arg)
    /\ last.success
    /\ Len(graph.nodes) = Len(prev.nodes) + 1

(***************************************************************************)
(* C13.  set_crop_region reports three distinguishable failures: not-found *)
(* when the id names no node (whatever region is passed), not-a-crop-node  *)
(* when the node exists but is not crop-bearing, a validation error when   *)
(* the region lacks one of the four fields on a crop node; a failure       *)
(* leaves the stored crop region unchanged, a success replaces all four    *)
(* fields.                                                                 *)
(***************************************************************************)
C13_SetCropRegionFailures ==
    last.op = "set_crop_region"
        => /\ ~HasNode(prev, last.id)
                => last.err \notin {"", "ValidationError",
                                    "ValueError: not an annotation node"}
           /\ (HasNode(prev, last.id) /\ ~IsCropNode(prev, last.id))
                => last.err = "ValueError: not an annotation node"
           /\ (IsCropNode(prev, last.id) /\ ~(CropFields \subseteq DOMAIN last.region))
                => last.err = "ValidationError"
           /\ last.err # "" => graph = prev
           /\ last.err = ""
                => /\ graph.attr[last.id].crop_region = last.region
                   /\ DOMAIN last.region = CropFields

(***************************************************************************)
(* C14.  to_yaml_data fails whenever some node of the graph has no label;  *)
(* it never emits such a node under an empty grouping key.                 *)
(***************************************************************************)
C14_UnlabelledNodeRejected ==
    /\ (\E id \in DOMAIN graph.attr : graph.attr[id].label = "")
            => to_yaml_data_raises(graph)
    /\ \A k \in 1..Len(to_yaml_data(graph, metadata).entries) :
            to_yaml_data(graph, metadata).entries[k].label # ""

(***************************************************************************)
(* C15.  delete_annotation(crop_id) on an ImageCrop node removes the node  *)
(* and every Text child of it: after a successful call neither the crop    *)
(* nor any of its former Text children is in the node list or in the       *)
(* children or parents of a remaining node, and the other nodes remain; on *)
(* an id that is not in the graph it returns a failure and removes         *)
(* nothing.                                                                *)
(***************************************************************************)
C15_DeleteRemovesCropAndTexts ==
    last.op = "delete_annotation"
        => /\ (last.success /\ IsCropNode(prev, last.id))
                => LET gone == {last.id} \cup TextChildren(prev, last.id)
                   IN /\ NodeIds(graph) = NodeIds(prev) \ gone
                      /\ \A n \in NodeIds(graph) :
                            /\ Range(children(graph, n).val) \cap gone = {}
                            /\ Range(parents(graph, n).val) \cap gone = {}
           /\ ~InGraph(prev, last.id)
                => ~last.success /\ graph = prev /\ api = last.was

\* a crop with a Text child was deleted
C15_Witness ==
    /\ last.op = "delete_annotation"
    /\ last.success
    /\ IsCropNode(prev, last.id)
    /\ TextChildren(prev, last.id) # {}
    /\ Len(graph.nodes) < Len(prev.nodes) - 1

(***************************************************************************)
(* C16.  Whenever update_node_data, update_node_coordinates,               *)
(* create_annotation or delete_annotation returns success, the call has    *)
(* written the file and the stored document is the serialization of the    *)
(* graph in memory.                                                        *)
(***************************************************************************)
C16_SuccessMeansSaved ==
    (last.op \in ApiMutations /\ last.success)
        => /\ last.wrote
           /\ api.file = to_yaml_data(graph, metadata)

\* a successful mutation that changed both the graph and the file
C16_Witness ==
    /\ last.op \in ApiMutations
    /\ last.success
    /\ graph # prev
    /\ api.file # last.was.file
    /\ api.file = to_yaml_data(graph, metadata)

(***************************************************************************)
(* C17.  Every public Api operation on the graph returns a structured      *)
(* result with a success flag in every state reachable by load_yaml and    *)
(* the operations: no exception leaves the adapter.                        *)
(***************************************************************************)
C17_NoExceptionEscapes ==
    /\ last.raised = ""
    /\ Api_get_all_nodes(api, graph).raised = ""
    /\ Api_get_all_nodes_for_grid(api, graph).raised = ""
    /\ \A id \in Ids \cup {""} :
            /\ Api_get_display_value(api, graph, id).raised = ""
            /\ Api_get_node_info(api, graph, id).raised = ""
    /\ \A tag \in {"Image", "ImageCrop", "Text"} :
            Api_get_nodes_by_type(api, graph, tag).raised = ""

(***************************************************************************)
(* C18.  Until a load_yaml call has succeeded, every graph query and       *)
(* mutation of the Api returns success = false with the "No graph loaded"  *)
(* error and leaves the Api state unchanged.                               *)
(***************************************************************************)
C18_NothingWorksBeforeLoad ==
    /\ ~api.loaded
            => /\ Api_get_all_nodes(api, graph) = Failure(NoGraphLoaded)
               /\ Api_get_all_nodes_for_grid(api, graph) = Failure(NoGraphLoaded)
               /\ \A id \in Ids \cup {""} :
                    /\ Api_get_display_value(api, graph, id) = Failure(NoGraphLoaded)
                    /\ Api_get_node_info(api, graph, id) = Failure(NoGraphLoaded)
               /\ \A tag \in {"Image", "ImageCrop", "Text"} :
                    Api_get_nodes_by_type(api, graph, tag) = Failure(NoGraphLoaded)
    /\ (last.op \in ApiMutations /\ ~last.was.loaded)
            => /\ ~last.success
               /\ last.err = NoGraphLoaded
               /\ last.raised = ""
               /\ ~last.wrote
               /\ graph = prev
               /\ api = last.was

\* a mutation asked of an Api whose file cannot be loaded
C18_Witness ==
    /\ last.op \in ApiMutations
    /\ ~api.loaded
    /\ api.file = BrokenDoc
    /\ last.err = NoGraphLoaded

(***************************************************************************)
(* C19.  In every reachable graph state the edge relation the graph holds  *)
(* equals the relation recomputed from node data, {(p, n.id) : n a node,   *)
(* p in n.parents}; parents(n) lists exactly the ids of n's parents field. *)
(***************************************************************************)
C19_EdgesMatchParents ==
    /\ Edges(graph) = DeclaredEdges(graph)
    /\ \A n \in DOMAIN graph.attr :
            Range(parents(graph, n).val) = Range(graph.attr[n].parents)

(***************************************************************************)
(* C20.  Saving is the inverse of loading: for the graph G of a loaded Api *)
(* after any create, edit and delete operations,                           *)
(* from_yaml_data(to_yaml_data(G)) has the same node ids with the same     *)
(* type, data and parents, and the same edge relation, as G.               *)
(***************************************************************************)
C20_SaveThenLoadIsIdentity ==
    api.loaded
        => LET back == from_yaml_data(to_yaml_data(graph, metadata))
           IN /\ back.err = ""
              /\ DOMAIN back.graph.attr = DOMAIN graph.attr
              /\ \A n \in DOMAIN graph.attr :
                    /\ back.graph.attr[n].type = graph.attr[n].type
                    /\ back.graph.attr[n].data = graph.attr[n].data
                    /\ back.graph.attr[n].parents = graph.attr[n].parents
              /\ Edges(back.graph) = Edges(graph)

(***************************************************************************)
(* Vocabulary of the properties about traversal.                           *)
(***************************************************************************)
NoRepeats(s) == Cardinality(Range(s)) = Len(s)

\* found is one of the terminal nodes, or the empty string when there is none
TerminalOrSentinel(found, terminal) ==
    /\ found.err = ""
    /\ IF terminal = {} THEN found.val = "" ELSE found.val \in terminal

\* leaves lists the terminal nodes, each once
ListsEachOnce(leaves, terminal) ==
    /\ leaves.err = ""
    /\ Range(leaves.val) = terminal
    /\ Cardinality(terminal) = Len(leaves.val)

(***************************************************************************)
(* C21.  As claimed: for every known start node and every type filter,     *)
(* find_deepest returns a node id and never the empty string.              *)
(***************************************************************************)
C21_AsClaimed ==
    \A start \in NodeIds(graph), tag \in TypeFilters :
        /\ find_deepest(graph, start, tag).err = ""
        /\ find_deepest(graph, start, tag).val \in NodeIds(graph)

(***************************************************************************)
(* C21, amended.  For every start in the node list and every type filter:  *)
(* when a node without matching children can be reached from start along   *)
(* edges into matching nodes (start included), find_deepest returns such a *)
(* node; when none can be reached (the matching nodes below start form a   *)
(* cycle) it returns the empty string.  For a start that is not in the     *)
(* graph it raises.                                                        *)
(***************************************************************************)
C21_LeafOrSentinel ==
    /\ \A start \in NodeIds(graph), tag \in TypeFilters :
          TerminalOrSentinel(find_deepest(graph, start, tag),
                             TerminalNodes(graph, start, tag))
    /\ \A start \in Ids \ NodeIds(graph), tag \in TypeFilters :
          find_deepest(graph, start, tag).err # ""

\* a start with matching children: the node found lies below it
C21_Witness ==
    \E start \in NodeIds(graph), tag \in TypeFilters :
        /\ HasChildOf(graph, start, tag)
        /\ find_deepest(graph, start, tag).val \in NodeIds(graph) \ {start}
        /\ ~HasChildOf(graph, find_deepest(graph, start, tag).val, tag)

(***************************************************************************)
(* C22.  dfs_leaves(start, filter) returns exactly the nodes reachable     *)
(* from start along edges into nodes whose type matches the filter (start  *)
(* included) that have no matching child, each listed once; a node with    *)
(* only non-matching children is a leaf, and a start with no matching      *)
(* child yields [start].                                                   *)
(***************************************************************************)
C22_LeavesAreTerminalNodes ==
    \A start \in NodeIds(graph), tag \in TypeFilters :
        /\ ListsEachOnce(dfs_leaves(graph, start, tag),
                         TerminalNodes(graph, start, tag))
        /\ ~HasChildOf(graph, start, tag)
                => dfs_leaves(graph, start, tag).val = <<start>>

\* two leaves below one start, one of them with a child the filter rejects
C22_Witness ==
    \E start \in NodeIds(graph), tag \in TypeFilters :
        /\ Len(dfs_leaves(graph, start, tag).val) >= 2
        /\ \E n \in Range(dfs_leaves(graph, start, tag).val) :
                n # start /\ graph.succ[n] # <<>>

(***************************************************************************)
(* C24.  to_yaml_data emits the metadata record with the version, workflow *)
(* and timestamp that were loaded when the imported document carried a     *)
(* metadata record, and emits no metadata record when the document had     *)
(* none.                                                                   *)
(***************************************************************************)
C24_MetadataAsImported ==
    (last.op = "from_yaml_data" /\ last.err = "")
        => IF doc.metadata = NoMetadata
           THEN to_yaml_data(graph, metadata).metadata = NoMetadata
           ELSE \A f \in DOMAIN doc.metadata :
                    to_yaml_data(graph, metadata).metadata[f] = doc.metadata[f]

(***************************************************************************)
(* C25.  In every reachable state the node list, and the rows of           *)
(* get_all_nodes_for_grid, hold exactly the ids of the nodes that were     *)
(* added and not removed: an id that only occurs as a declared parent is   *)
(* never listed.                                                           *)
(***************************************************************************)
C25_OnlyAddedNodesListed ==
    /\ Range(graph_nodes(graph)) = DOMAIN graph.attr
    /\ get_all_nodes_for_grid(graph).err = ""
            => {get_all_nodes_for_grid(graph).rows[i].id :
                    i \in 1..Len(get_all_nodes_for_grid(graph).rows)} = DOMAIN graph.attr

(***************************************************************************)
(* C26.  After a successful delete_annotation(id) no remaining node lists  *)
(* a removed id in its stored parents field.                               *)
(***************************************************************************)
C26_NoDanglingParents ==
    (last.op = "delete_annotation" /\ last.success)
        => \A n \in DOMAIN graph.attr :
                Range(graph.attr[n].parents) \cap (NodeIds(prev) \ NodeIds(graph)) = {}

(***************************************************************************)
(* Vocabulary of the properties about the text shown for a crop.           *)
(***************************************************************************)
\* update_node_data("", text, crop_id = c) succeeded on a leaf crop c
TextAddedToLeafCrop ==
    /\ last.op = "update_node_data"
    /\ last.id = ""
    /\ last.success
    /\ IsCropNode(prev, last.arg)
    /\ ~HasChildOf(prev, last.arg, "ImageCrop")

(***************************************************************************)
(* C27.  As claimed: for every leaf ImageCrop node c, after                *)
(* update_node_data("", text, crop_id = c) succeeds,                       *)
(* compute_display_value(c) returns value = text with source_id = the id   *)
(* of the new Text node, whether or not c already had a Text child.        *)
(***************************************************************************)
C27_AsClaimed ==
    TextAddedToLeafCrop
        => /\ compute_display_value(graph, last.arg).value = EditedData
           /\ compute_display_value(graph, last.arg).source_id
                    \in NodeIds(graph) \ NodeIds(prev)

(***************************************************************************)
(* C27, amended.  For every leaf ImageCrop node c, after                   *)
(* update_node_data("", text, crop_id = c) succeeds: when c had no Text    *)
(* child, compute_display_value(c) returns value = text with source_id =   *)
(* the id of the new Text node; when c already had a Text child the new    *)
(* node comes after it among the children of c and                         *)
(* compute_display_value(c) is what it was before the call.                *)
(***************************************************************************)
C27_NewTextShownOnEmptyCrop ==
    TextAddedToLeafCrop
        => IF ~HasChildOf(prev, last.arg, "Text")
           THEN /\ compute_display_value(graph, last.arg).value = EditedData
                /\ compute_display_value(graph, last.arg).source_id
                        \in NodeIds(graph) \ NodeIds(prev)
                /\ compute_display_value(graph, last.arg).locked = FALSE
           ELSE compute_display_value(graph, last.arg)
                    = compute_display_value(prev, last.arg)

\* a text typed for a leaf crop that had no text
C27_Witness ==
    /\ TextAddedToLeafCrop
    /\ ~HasChildOf(prev, last.arg, "Text")
    /\ compute_display_value(graph, last.arg).value = EditedData

(***************************************************************************)
(* C28.  Read-after-write through the display source: if                   *)
(* compute_display_value(c) returns a non-empty source_id s, then after    *)
(* set_data(s, v) succeeds compute_display_value(c) returns value = v with *)
(* the same source_id s, and the display result of every node whose        *)
(* source_id is not s is unchanged.                                        *)
(***************************************************************************)
C28_EditShowsThroughSource ==
    (last.op = "set_data" /\ last.id # "" /\ last.err = "")
        => \A c \in NodeIds(prev) :
                IF /\ compute_display_value(prev, c).err = ""
                   /\ compute_display_value(prev, c).source_id = last.id
                THEN compute_display_value(graph, c)
                        = [compute_display_value(prev, c) EXCEPT !.value = EditedData]
                ELSE compute_display_value(graph, c) = compute_display_value(prev, c)

\* the edited node is the source of a crop, and another node shows another source
C28_Witness ==
    /\ last.op = "set_data"
    /\ last.err = ""
    /\ \E c \in NodeIds(prev) \ {last.id} :
            /\ compute_display_value(prev, c).source_id = last.id
            /\ compute_display_value(graph, c).value = EditedData
    /\ \E c \in NodeIds(prev) :
            /\ compute_display_value(prev, c).source_id \in NodeIds(prev) \ {last.id}
            /\ compute_display_value(graph, c) = compute_display_value(prev, c)

(***************************************************************************)
(* C30.  A load_yaml call that fails (unreadable file, unparsable          *)
(* document, or a node that fails validation part-way through the import)  *)
(* leaves the Api's current graph and document path exactly as they were   *)
(* before the call; a successful call replaces both together.              *)
(***************************************************************************)
C30_LoadIsAllOrNothing ==
    last.op = "load_yaml"
        => IF last.success
           THEN /\ api.loaded
                /\ api.yaml_path = last.arg
                /\ graph = from_yaml_data(last.was.file).graph
                /\ metadata = from_yaml_data(last.was.file).metadata
           ELSE /\ graph = prev
                /\ api = last.was
                /\ metadata = IF api.loaded THEN from_yaml_data(doc).metadata
                              ELSE MetadataDefaults

\* a document that fails validation at its second node, loaded over a graph
C30_Witness ==
    /\ last.op = "load_yaml"
    /\ ~last.success
    /\ last.arg = BrokenPath
    /\ api.loaded
    /\ api.yaml_path = YamlPath
    /\ graph.nodes # <<>>

(***************************************************************************)
(* C23.  dfs_leaves terminates on every finite graph, including graphs     *)
(* whose parent declarations form cycles or self-loops, and expands each   *)
(* node at most once: a call that was started returns (or raises, for a    *)
(* start that is not in the graph), no node is asked for its children      *)
(* twice, and what the loop returns is what dfs_leaves returns.            *)
(***************************************************************************)
C23_TerminatesExpandingOnce ==
    /\ dfs.running ~> ~dfs.running
    /\ [](~dfs.repeated)
    /\ []((~dfs.running /\ dfs.start # Absent)
            => /\ dfs.err = dfs_leaves(graph, dfs.start, dfs.type_filter).err
               /\ dfs.err = ""
                    => dfs.leaves = dfs_leaves(graph, dfs.start, dfs.type_filter).val)

\* a call that returned after it met a node a second time, on a cycle or a
\* self-loop
C23_Witness ==
    /\ ~dfs.running
    /\ dfs.err = ""
    /\ dfs.start \in NodeIds(graph)
    /\ \E n \in dfs.visited :
            \E c \in Range(graph.succ[n]) :
                /\ IsTagged(graph, c, dfs.type_filter)
                /\ n \in ReachableVia(graph, {c}, dfs.type_filter)

(***************************************************************************)
(* Vocabulary of the properties about the order of a document.             *)
(***************************************************************************)
\* the ids of the node entries of a document, in the order they are listed
ListedIds(d) ==
    LET items == SelectSeq(labelled_items(d.entries),
                           LAMBDA e : e.item.kind = "dict" /\ e.item.id # Absent)
    IN [i \in 1..Len(items) |-> items[i].item.id]

\* the same entries were imported in two orders, no id listed twice
ImportedInTwoOrders ==
    /\ last.op = "from_yaml_data, reordered"
    /\ NoRepeats(ListedIds(doc))

ImageCropChildren(g, id) == {c \in Range(g.succ[id]) : IsTagged(g, c, "ImageCrop")}

\* no node of the Text chains below id has two Text children
TextChainsUnbranched(g, id) ==
    \A n \in ReachableVia(g, {id}, "Text") : Cardinality(TextChildren(g, n)) <= 1

(***************************************************************************)
(* C29.  As claimed: for every document with unique ids, building the      *)
(* graph with the node entries in any order yields the same set of         *)
(* materialized nodes, the same edge relation and the same                 *)
(* compute_display_value result for every node whose Text and ImageCrop    *)
(* children are at most one each.                                          *)
(***************************************************************************)
C29_AsClaimed ==
    ImportedInTwoOrders
        => /\ (last.err = "") = (from_yaml_data(doc).err = "")
           /\ last.err = ""
                => /\ graph.attr = prev.attr
                   /\ Edges(graph) = Edges(prev)
                   /\ \A n \in DOMAIN graph.attr :
                        (/\ Cardinality(TextChildren(graph, n)) <= 1
                         /\ Cardinality(ImageCropChildren(graph, n)) <= 1)
                            => compute_display_value(graph, n)
                                    = compute_display_value(prev, n)

(***************************************************************************)
(* C29, amended.  For every document with unique ids, building the graph   *)
(* with the node entries in any order yields the same set of materialized  *)
(* nodes, the same edge relation and the same compute_display_value result *)
(* for every node below which no node of the Text chains has more than one *)
(* Text child.                                                             *)
(***************************************************************************)
C29_OrderIndependentImport ==
    ImportedInTwoOrders
        => /\ (last.err = "") = (from_yaml_data(doc).err = "")
           /\ last.err = ""
                => /\ graph.attr = prev.attr
                   /\ Edges(graph) = Edges(prev)
                   /\ \A n \in DOMAIN graph.attr :
                        TextChainsUnbranched(graph, n)
                            => compute_display_value(graph, n)
                                    = compute_display_value(prev, n)

\* a child listed before its parent in one order and after it in the other,
\* and the crop shows the same text
C29_Witness ==
    /\ ImportedInTwoOrders
    /\ last.err = ""
    /\ graph.nodes # prev.nodes
    /\ \E n \in DOMAIN graph.attr :
            /\ IsCropNode(graph, n)
            /\ TextChildren(graph, n) # {}
            /\ graph.succ[n] # <<>>
            /\ compute_display_value(graph, n).err = ""
            /\ compute_display_value(graph, n) = compute_display_value(prev, n)

=============================================================================
